---------------------------- MODULE Spec2Model ----------------------------
(***************************************************************************)
(* Getzen medical-inflation projection (src/gt.py).                        *)
(*                                                                         *)
(* The script reads the sidebar inputs, estimates the 2025 growth rate by  *)
(* a linear regression over the four historical rates, scans a grid of    *)
(* candidate full growth rates with simular_projecao until the share at   *)
(* the end of the horizon reaches share_resistencia, and then rebuilds the *)
(* projection year by year for display (debug_data).                       *)
(*                                                                         *)
(* Real numbers are fixed-point integers with SCALE units per 1.0; a       *)
(* product of two reals is rounded down to the grid.  np.exp is sampled on *)
(* quarter units of its argument.                                          *)
(***************************************************************************)
EXTENDS Integers, Sequences, FiniteSets

VARIABLES
    anos_proj,          \* slider "Horizonte (anos)"
    ano_limite,         \* number_input "Ano em que HCCTR -> 0"
    inflacao,           \* number_input "Inflacao Media Projetada"
    renda_real,         \* number_input "Crescimento Real da Renda Per Capita"
    uploaded_file,      \* a CSV of PIB per capita was uploaded and read
    media_real,         \* mean growth computed from the uploaded CSV
    g_manual,           \* the four observed rates 2021..2024
    g_2025,             \* regression estimate of the 2025 rate
    share_inicial,      \* number_input "Participacao Inicial da Saude no PIB"
    share_resistencia,  \* number_input "Limite de Resistencia"
    pc,                 \* position of the script
    idx,                \* position of the scan in intervalo_testes (1-based)
    best_gmed,          \* calibrated full growth rate
    matched,            \* history: the scan left through its break
    n_eval,             \* history: number of simular_projecao calls made
    crescimento_medico, \* result loop lists
    hcctr,
    share,
    custo,
    debug_data          \* rows of the displayed table

config == <<anos_proj, ano_limite, inflacao, renda_real, uploaded_file, media_real, g_manual,
            g_2025,
            share_inicial, share_resistencia>>
scan == <<idx, best_gmed, matched, n_eval>>
series == <<crescimento_medico, hcctr, share, custo, debug_data>>
vars == <<config, pc, scan, series>>

---------------------------------------------------------------------------
(* Fixed-point arithmetic *)

SCALE == 100 * 100

MulS(a, b) == (a * b) \div SCALE

Max(a, b) == IF a >= b THEN a ELSE b
Min(a, b) == IF a <= b THEN a ELSE b

Last(s) == s[Len(s)]

RECURSIVE SumSeq(_)
SumSeq(s) == IF s = <<>> THEN 0 ELSE Head(s) + SumSeq(Tail(s))

\* value * 100 of the table columns "(%)"
Pct(x) == x * 100

---------------------------------------------------------------------------
(* Bounds of the model and program constants *)

MaxAnosProj == 12       \* horizons explored: MinAnosProj..MaxAnosProj
LimiteSpan == 2         \* ano_limite explored: MinAnoLimite..MinAnoLimite+LimiteSpan
NumTestes == 24         \* points of the candidate grid explored (200 in the script)

MinAnosProj == 10
MinAnoLimite == 2035
ano_inicio == 2026
AnoAncora == 2025
AnoFimTransicao == 2030
ResistK == 200          \* k = 0.02
TesteMin == 500
TesteMax == 1200

\* <<inflacao, renda_real, uploaded_file, media_real>>
MacroVals == { <<350, 150, FALSE, 0>>,
               <<350, 950, FALSE, 0>>,
               <<350, 150, TRUE, -550>> }
GManualVals == { <<2500, 2300, 1425, 1425>>,
                 <<10000, 0, 0, 0>>,
                 <<500, 800, 1100, 1400>> }
ShareInicialVals == {960, 2000}
ShareResistenciaVals == {900, 1300, 1500, 9000}

MotivoInterp == "Interpolacao 2025-2030"
MotivoConv == "Convergencia de Crescimento"
MotivoResist == "Resistencia Aplicada"

---------------------------------------------------------------------------
(* Inputs derived before the simulation *)

renda_pc_padrao == inflacao + renda_real

renda_pc_proj ==
    IF uploaded_file THEN inflacao + media_real ELSE renda_pc_padrao

anos_hist == <<2021, 2022, 2023, 2024>>

\* Least-squares line through (anos_hist, valores_hist), evaluated at 2025.
\* Years are centred in half-year units so the deviations stay integers:
\* cov2 is 2*cov and var4 is 4*var.
Regressao2025(valores_hist) ==
    LET n     == Len(anos_hist)
        my    == SumSeq(valores_hist) \div n
        mx2   == (2 * SumSeq(anos_hist)) \div n
        dx2   == [i \in 1..n |-> 2 * anos_hist[i] - mx2]
        cov2  == SumSeq([i \in 1..n |-> dx2[i] * (valores_hist[i] - my)]) \div n
        var4  == SumSeq([i \in 1..n |-> dx2[i] * dx2[i]]) \div n
        b     == (2 * cov2) \div var4
        a     == my - ((b * mx2) \div 2)
    IN  a + b * AnoAncora

---------------------------------------------------------------------------
(* resistencia *)

\* round(exp(q/4) * SCALE) for q = -32..32
ExpTable ==
    << 3, 4, 6, 7, 9, 12, 15, 19, 25, 32, 41, 52, 67, 87, 111, 143, 183, 235,
       302, 388, 498, 639, 821, 1054, 1353, 1738, 2231, 2865, 3679, 4724,
       6065, 7788, 10000, 12840, 16487, 21170, 27183, 34903, 44817, 57546,
       73891, 94877, 121825, 156426, 200855, 257903, 331155, 425211, 545982,
       701054, 900171, 1155843, 1484132, 1905663, 2446919, 3141907, 4034288,
       5180128, 6651416, 8540588, 10966332, 14081048, 18080424, 23215724,
       29809580 >>

\* np.exp on a fixed-point argument, sampled every quarter unit and
\* saturated outside [-8, 8]
Exp(x) ==
    LET q == Max(-32, Min(32, x \div (SCALE \div 4)))
    IN  ExpTable[q + 33]

resistencia(share_atual, limite, k) ==
    (SCALE * SCALE) \div (SCALE + Exp(((share_atual - limite) * SCALE) \div k))

---------------------------------------------------------------------------
(* simular_projecao *)

\* list(range(a, b))
Range(a, b) == [i \in 1..Max(b - a, 0) |-> a + i - 1]

\* one pass of the loop body of simular_projecao over the lists in st
SimBody(g_medico_final, ano, st) ==
    LET g_m ==
            IF ano <= AnoFimTransicao
            THEN LET denom == AnoFimTransicao - AnoAncora
                     f0 == IF denom # 0
                           THEN ((ano - AnoAncora) * SCALE) \div denom
                           ELSE SCALE
                     frac == Min(Max(f0, 0), SCALE)
                 IN  g_2025 + MulS(g_medico_final - g_2025, frac)
            ELSE IF ano >= ano_limite
            THEN renda_pc_proj
            ELSE LET excesso == Max(g_medico_final - renda_pc_proj, 0)
                     fator_res == resistencia(Last(st.share), share_resistencia, ResistK)
                 IN  renda_pc_proj + MulS(excesso, fator_res)
    IN  [ crescimento_medico |-> Append(st.crescimento_medico, g_m),
          hcctr |-> Append(st.hcctr, g_m - renda_pc_proj),
          custo |-> Append(st.custo, MulS(Last(st.custo), SCALE + g_m)),
          share |-> Append(st.share, MulS(Last(st.share), SCALE + (g_m - renda_pc_proj))) ]

RECURSIVE SimLoop(_, _, _)
SimLoop(g_medico_final, anos, st) ==
    IF anos = <<>> THEN st
    ELSE SimLoop(g_medico_final, Tail(anos), SimBody(g_medico_final, Head(anos), st))

simular_projecao(g_medico_final) ==
    SimLoop(g_medico_final,
            Range(ano_inicio, ano_inicio + anos_proj),
            [ crescimento_medico |-> <<>>, hcctr |-> <<>>,
              share |-> <<share_inicial>>, custo |-> <<SCALE>> ])

---------------------------------------------------------------------------
(* Calibration scan *)

\* np.linspace(0.05, 0.12, n)
intervalo_testes ==
    [i \in 1..NumTestes |->
        TesteMin + ((i - 1) * (TesteMax - TesteMin)) \div (NumTestes - 1)]

\* the pre-update variant of the test: the share the last table row reports
CalibAccepts_PreUpdate(s_sim) == s_sim[Len(s_sim) - 1] >= share_resistencia

\* s_sim[-1] >= share_resistencia
CalibAccepts(s_sim) == Last(s_sim) >= share_resistencia

CalibReject ==
    /\ pc = "calib"
    /\ idx <= NumTestes
    /\ ~CalibAccepts(simular_projecao(intervalo_testes[idx]).share)
    /\ idx' = idx + 1
    /\ n_eval' = n_eval + 1
    /\ UNCHANGED <<config, pc, best_gmed, matched, series>>

CalibAccept ==
    /\ pc = "calib"
    /\ idx <= NumTestes
    /\ CalibAccepts(simular_projecao(intervalo_testes[idx]).share)
    /\ best_gmed' = intervalo_testes[idx]
    /\ matched' = TRUE
    /\ n_eval' = n_eval + 1
    /\ pc' = "inicia"
    /\ UNCHANGED <<config, idx, series>>

CalibExhausted ==
    /\ pc = "calib"
    /\ idx > NumTestes
    /\ pc' = "inicia"
    /\ UNCHANGED <<config, scan, series>>

---------------------------------------------------------------------------
(* Result loop *)

anos_result_Longer == Range(ano_inicio, ano_inicio + anos_proj + 1)

anos_result == Range(ano_inicio, ano_inicio + anos_proj)

\* branch selection with the convergence test first
Motivo_ConvFirst(ano, limite) ==
    IF ano >= limite THEN MotivoConv
    ELSE IF ano <= AnoFimTransicao THEN MotivoInterp
    ELSE MotivoResist

\* the if / elif / else of the result loop, as the tag it attaches
Motivo(ano, limite) ==
    IF ano <= AnoFimTransicao THEN MotivoInterp
    ELSE IF ano >= limite THEN MotivoConv
    ELSE MotivoResist

ResInterp(ano) ==
    LET denom == AnoFimTransicao - AnoAncora
        f0 == IF denom # 0
              THEN ((ano - AnoAncora) * SCALE) \div denom
              ELSE SCALE
        frac == Min(Max(f0, 0), SCALE)
    IN  g_2025 + MulS(best_gmed - g_2025, frac)

ResResist(prev_share) ==
    LET excesso == Max(best_gmed - renda_pc_proj, 0)
        fator_res == resistencia(prev_share, share_resistencia, ResistK)
    IN  renda_pc_proj + MulS(excesso, fator_res)

\* a manual phase: the first Len(g_manual) years take the entered rates
ResultGm_Manual(ano, prev_share) ==
    IF ano - ano_inicio + 1 <= Len(g_manual) THEN g_manual[ano - ano_inicio + 1]
    ELSE IF Motivo(ano, ano_limite) = MotivoInterp THEN ResInterp(ano)
    ELSE IF Motivo(ano, ano_limite) = MotivoConv THEN renda_pc_proj
    ELSE ResResist(prev_share)

\* convergence to the default benchmark instead of the one in effect
ResultGm_ConvPadrao(ano, prev_share) ==
    IF Motivo(ano, ano_limite) = MotivoInterp THEN ResInterp(ano)
    ELSE IF Motivo(ano, ano_limite) = MotivoConv THEN renda_pc_padrao
    ELSE ResResist(prev_share)

\* excess not floored at 0
ResultGm_NoFloor(ano, prev_share) ==
    IF Motivo(ano, ano_limite) = MotivoInterp THEN ResInterp(ano)
    ELSE IF Motivo(ano, ano_limite) = MotivoConv THEN renda_pc_proj
    ELSE renda_pc_proj
         + MulS(best_gmed - renda_pc_proj,
                resistencia(prev_share, share_resistencia, ResistK))

\* g_m of the result loop for year ano, given share[-1]
ResultGm(ano, prev_share) ==
    IF Motivo(ano, ano_limite) = MotivoInterp THEN ResInterp(ano)
    ELSE IF Motivo(ano, ano_limite) = MotivoConv THEN renda_pc_proj
    ELSE ResResist(prev_share)

NextCusto_NoOne(prev, g_m) == MulS(prev, g_m)

\* custo[-1] * (1.0 + g_m)
NextCusto(prev, g_m) == MulS(prev, SCALE + g_m)

NextShare_Capped(prev, g_m) ==
    Min(MulS(prev, SCALE + (g_m - renda_pc_proj)), Max(prev, share_resistencia))

\* share[-1] * (1.0 + (g_m - renda_pc_proj))
NextShare(prev, g_m) == MulS(prev, SCALE + (g_m - renda_pc_proj))

ReportedShare_PostUpdate(sh) == sh[Len(sh)]

\* share[-2], read after the append
ReportedShare(sh) == sh[Len(sh) - 1]

IniciaResultado ==
    /\ pc = "inicia"
    /\ crescimento_medico' = <<>>
    /\ hcctr' = <<>>
    /\ share' = <<share_inicial>>
    /\ custo' = <<SCALE>>
    /\ debug_data' = <<>>
    /\ pc' = "loop"
    /\ UNCHANGED <<config, scan>>

PassoResultado ==
    /\ pc = "loop"
    /\ Len(debug_data) < Len(anos_result)
    /\ LET ano == anos_result[Len(debug_data) + 1]
           g_m == ResultGm(ano, Last(share))
           motivo == Motivo(ano, ano_limite)
           share2 == Append(share, NextShare(Last(share), g_m))
       IN  /\ crescimento_medico' = Append(crescimento_medico, g_m)
           /\ hcctr' = Append(hcctr, g_m - renda_pc_proj)
           /\ custo' = Append(custo, NextCusto(Last(custo), g_m))
           /\ share' = share2
           /\ debug_data' = Append(debug_data,
                  [ Ano |-> ano,
                    CrescimentoMedico |-> Pct(g_m),
                    HCCTR |-> Pct(g_m - renda_pc_proj),
                    Share |-> Pct(ReportedShare(share2)),
                    Motivo |-> motivo ])
    /\ UNCHANGED <<config, pc, scan>>

Compila ==
    /\ pc = "loop"
    /\ Len(debug_data) >= Len(anos_result)
    /\ pc' = "done"
    /\ UNCHANGED <<config, scan, series>>

---------------------------------------------------------------------------
(* Specification *)

Init ==
    /\ anos_proj \in MinAnosProj..MaxAnosProj
    /\ ano_limite \in MinAnoLimite..(MinAnoLimite + LimiteSpan)
    /\ \E m \in MacroVals :
          /\ inflacao = m[1]
          /\ renda_real = m[2]
          /\ uploaded_file = m[3]
          /\ media_real = m[4]
    /\ g_manual \in GManualVals
    /\ g_2025 = Regressao2025(g_manual)
    /\ share_inicial \in ShareInicialVals
    /\ share_resistencia \in ShareResistenciaVals
    /\ pc = "calib"
    /\ idx = 1
    /\ best_gmed = renda_pc_proj
    /\ matched = FALSE
    /\ n_eval = 0
    /\ crescimento_medico = <<>>
    /\ hcctr = <<>>
    /\ share = <<>>
    /\ custo = <<>>
    /\ debug_data = <<>>

Next ==
    \/ CalibReject
    \/ CalibAccept
    \/ CalibExhausted
    \/ IniciaResultado
    \/ PassoResultado
    \/ Compila

Spec == Init /\ [][Next]_vars

---------------------------------------------------------------------------
(* Properties *)

Rows == 1..Len(debug_data)

\* the run simular_projecao returns for the candidate under test
CandidateRun == simular_projecao(intervalo_testes[idx])

\* C1: the projection has exactly anos_proj rows, the first for ano_inicio
\* and each next one for the following year; simular_projecao and the result
\* loop both append one rate, one hcctr value and one row per year.
C1_YearsContiguous ==
    /\ Len(debug_data) <= anos_proj
    /\ \A i \in Rows : debug_data[i].Ano = ano_inicio + i - 1
    /\ pc \in {"loop", "done"} =>
          /\ Len(crescimento_medico) = Len(debug_data)
          /\ Len(hcctr) = Len(debug_data)
          /\ Len(share) = Len(debug_data) + 1
          /\ Len(custo) = Len(debug_data) + 1
    /\ pc = "done" => Len(debug_data) = anos_proj
    /\ (pc = "calib" /\ idx <= NumTestes) =>
          /\ Len(CandidateRun.crescimento_medico) = anos_proj
          /\ Len(CandidateRun.hcctr) = anos_proj
          /\ Len(CandidateRun.share) = anos_proj + 1
          /\ Len(CandidateRun.custo) = anos_proj + 1

C1_Witness ==
    /\ pc = "done"
    /\ anos_proj = MinAnosProj + 1
    /\ Len(debug_data) = anos_proj
    /\ debug_data[anos_proj].Ano = ano_inicio + anos_proj - 1

MotivoManual == "Manual"

\* C2 as stated: each of the first Len(g_manual) rows takes the manually
\* entered rate of its index and carries the manual tag.
C2_ManualExact ==
    \A i \in Rows :
        i <= Len(g_manual) =>
            /\ debug_data[i].CrescimentoMedico = Pct(g_manual[i])
            /\ debug_data[i].Motivo = MotivoManual

\* C2 amended: no row takes a manually entered rate or a manual tag.  The
\* four rates only fix the regression estimate g_2025; every row up to 2030,
\* the first four included, is produced by the interpolation between g_2025
\* and best_gmed and carries the interpolation tag.
C2_ManualOnlyFeedsRegression ==
    /\ g_2025 = Regressao2025(g_manual)
    /\ \A i \in Rows :
          debug_data[i].Ano <= AnoFimTransicao =>
              /\ debug_data[i].Motivo = MotivoInterp
              /\ debug_data[i].CrescimentoMedico =
                    Pct(g_2025 + MulS(best_gmed - g_2025,
                            ((debug_data[i].Ano - AnoAncora) * SCALE)
                                \div (AnoFimTransicao - AnoAncora)))
    /\ \A i \in Rows : i <= Len(g_manual) => debug_data[i].Motivo = MotivoInterp

C2_Witness ==
    /\ matched
    /\ Len(debug_data) >= Len(g_manual)
    /\ \A i \in 1..Len(g_manual) :
          /\ debug_data[i].CrescimentoMedico # Pct(g_manual[i])
          /\ debug_data[i].Motivo = MotivoInterp

\* C3: every row past the interpolation years whose year is at or after
\* ano_limite has the rate renda_pc_proj, hcctr 0 and the convergence tag;
\* after a convergence row every later row has hcctr 0 and the share no
\* longer changes.
C3_TerminalConvergence ==
    \A i \in Rows :
        /\ (debug_data[i].Ano > AnoFimTransicao /\ debug_data[i].Ano >= ano_limite) =>
              /\ debug_data[i].CrescimentoMedico = Pct(renda_pc_proj)
              /\ debug_data[i].HCCTR = 0
              /\ debug_data[i].Motivo = MotivoConv
              /\ crescimento_medico[i] = renda_pc_proj
              /\ hcctr[i] = 0
        /\ debug_data[i].Motivo = MotivoConv =>
              \A j \in Rows :
                  j >= i =>
                      /\ debug_data[j].HCCTR = 0
                      /\ debug_data[j].Share = debug_data[i].Share
                      /\ share[j + 1] = share[i]

C3_Witness ==
    /\ pc = "done"
    /\ uploaded_file
    /\ debug_data[1].Share # debug_data[Len(debug_data)].Share
    /\ \E i \in Rows :
          /\ i + 1 \in Rows
          /\ debug_data[i].Motivo = MotivoConv
          /\ debug_data[i + 1].Motivo = MotivoConv

\* C4: in every year resolved by the resistance branch the rate is at least
\* renda_pc_proj (hcctr >= 0), whatever the full growth rate (also one below
\* renda_pc_proj) and the previous share.
C4_ResistanceNonNegative ==
    /\ \A i \in Rows :
          debug_data[i].Motivo = MotivoResist =>
              /\ debug_data[i].CrescimentoMedico >= Pct(renda_pc_proj)
              /\ debug_data[i].HCCTR >= 0
              /\ hcctr[i] >= 0
    /\ (pc = "calib" /\ idx <= NumTestes) =>
          \A t \in 1..anos_proj :
              (ano_inicio + t - 1 > AnoFimTransicao /\ ano_inicio + t - 1 < ano_limite) =>
                  /\ CandidateRun.hcctr[t] >= 0
                  /\ CandidateRun.crescimento_medico[t] >= renda_pc_proj

C4_Witness ==
    /\ matched
    /\ best_gmed < renda_pc_proj
    /\ \E i \in Rows :
          /\ debug_data[i].Motivo = MotivoResist
          /\ debug_data[i].HCCTR = 0

\* C5 as stated: when every rate is above -1, custo never decreases from one
\* year to the next.
C5_NonDecreasingAboveMinusOne ==
    (\A t \in 1..Len(crescimento_medico) : crescimento_medico[t] > -SCALE) =>
        \A t \in 1..Len(crescimento_medico) : custo[t + 1] >= custo[t]

\* C5 amended: custo starts at 1.0 and does not decrease over a year whose
\* rate is at least 0; it is non-decreasing over the whole sequence when
\* every rate is at least 0.
C5_NonDecreasingWhenNonNegative ==
    /\ pc \in {"loop", "done"} => custo[1] = SCALE
    /\ \A t \in 1..Len(crescimento_medico) :
          crescimento_medico[t] >= 0 => custo[t + 1] >= custo[t]

C5_Witness ==
    /\ pc = "done"
    /\ \E t \in 1..Len(crescimento_medico) :
          /\ crescimento_medico[t] < 0
          /\ crescimento_medico[t] > -SCALE
    /\ \E t \in 1..Len(crescimento_medico) :
          /\ crescimento_medico[t] > 0
          /\ custo[t + 1] > custo[t]

\* the share the last row of a run reports: share[-2]
TerminalReported(run) == run.share[Len(run.share) - 1]

\* the share at the end of the horizon: share[-1]
TerminalFinal(run) == run.share[Len(run.share)]

\* C6 as stated: the scan returns the first candidate whose last row's
\* reported (pre-update) share reaches share_resistencia.
C6_FirstMatchReportedShare ==
    (pc = "inicia" /\ matched) =>
        /\ best_gmed = intervalo_testes[idx]
        /\ TerminalReported(simular_projecao(best_gmed)) >= share_resistencia
        /\ \A j \in 1..(idx - 1) :
              TerminalReported(simular_projecao(intervalo_testes[j])) < share_resistencia

\* C6 amended: the scan returns the first candidate, in scan order, for which
\* the share after the last year's update (share[-1], one step past the share
\* the last row reports) reaches share_resistencia; no earlier candidate
\* passes that test and no later candidate is evaluated.
C6_FirstMatchFinalShare ==
    /\ (pc = "inicia" /\ matched) =>
          /\ idx \in 1..NumTestes
          /\ best_gmed = intervalo_testes[idx]
          /\ TerminalFinal(simular_projecao(best_gmed)) >= share_resistencia
          /\ \A j \in 1..(idx - 1) :
                TerminalFinal(simular_projecao(intervalo_testes[j])) < share_resistencia
          /\ n_eval = idx
    /\ (pc = "inicia" /\ ~matched) =>
          /\ n_eval = NumTestes
          /\ \A j \in 1..NumTestes :
                TerminalFinal(simular_projecao(intervalo_testes[j])) < share_resistencia
    /\ \A j \in 1..(NumTestes - 1) : intervalo_testes[j] <= intervalo_testes[j + 1]

C6_Witness ==
    /\ pc = "inicia"
    /\ matched
    /\ idx > 1
    /\ idx < NumTestes
    /\ TerminalReported(simular_projecao(best_gmed)) < share_resistencia
    /\ TerminalFinal(simular_projecao(best_gmed)) >= share_resistencia

\* C7 as stated: when no candidate reaches the target, what the scan hands
\* on is not a number usable as a growth rate, or no projection is built from
\* it.
C7_ExhaustionSignalled ==
    (pc = "done" /\ ~matched) =>
        \/ best_gmed \notin Int
        \/ debug_data = <<>>

\* C8: each row reports the share before that year's update: the first row
\* reports share_inicial and each next row the previous share times
\* (1 + hcctr), hcctr being the rate minus renda_pc_proj; nothing caps the
\* share at share_resistencia.
C8_PreUpdateShare ==
    /\ \A i \in Rows :
          /\ debug_data[i].Share = Pct(share[i])
          /\ debug_data[i].HCCTR = debug_data[i].CrescimentoMedico - Pct(renda_pc_proj)
    /\ Len(debug_data) >= 1 => debug_data[1].Share = Pct(share_inicial)
    /\ \A i \in Rows :
          i + 1 \in Rows =>
              debug_data[i + 1].Share =
                  Pct(MulS(debug_data[i].Share \div 100,
                           SCALE + (debug_data[i].HCCTR \div 100)))

C8_Witness ==
    /\ pc = "done"
    /\ share_inicial < share_resistencia
    /\ \E i \in Rows :
          /\ i + 1 \in Rows
          /\ debug_data[i].Share > Pct(share_resistencia)
          /\ debug_data[i + 1].Share > debug_data[i].Share

Rank(motivo) ==
    IF motivo = MotivoInterp THEN 0
    ELSE IF motivo = MotivoResist THEN 1
    ELSE 2

\* C9: each row carries one tag, the first that matches in the order
\* interpolation (year <= 2030), convergence (year >= ano_limite), resistance;
\* the branch selection gives the interpolation tag to a year that meets both
\* of the first two tests; along the rows the tags appear as interpolation*,
\* resistance*, convergence*.
C9_OneTagFirstMatch ==
    /\ \A i \in Rows :
          debug_data[i].Motivo =
              IF debug_data[i].Ano <= AnoFimTransicao THEN MotivoInterp
              ELSE IF debug_data[i].Ano >= ano_limite THEN MotivoConv
              ELSE MotivoResist
    /\ \A i \in Rows : \A j \in Rows :
          i < j => Rank(debug_data[i].Motivo) <= Rank(debug_data[j].Motivo)
    /\ \A ano \in ano_inicio..(ano_inicio + MaxAnosProj) :
          \A limite \in ano_inicio..(MinAnoLimite + LimiteSpan) :
              (ano <= AnoFimTransicao /\ ano >= limite) =>
                  Motivo(ano, limite) = MotivoInterp

C9_Witness ==
    /\ pc = "done"
    /\ \E i \in Rows : debug_data[i].Motivo = MotivoInterp
    /\ \E i \in Rows : debug_data[i].Motivo = MotivoResist
    /\ \E i \in Rows : debug_data[i].Motivo = MotivoConv

\* C10: the lists the result loop builds are, element by element, the lists
\* simular_projecao returns for best_gmed, so after a match the displayed
\* run ends with share[-1] >= share_resistencia.
C10_DisplayedRunIsAcceptedRun ==
    /\ pc \in {"loop", "done"} =>
          LET run == simular_projecao(best_gmed)
              n == Len(debug_data)
          IN  /\ share = SubSeq(run.share, 1, n + 1)
              /\ custo = SubSeq(run.custo, 1, n + 1)
              /\ crescimento_medico = SubSeq(run.crescimento_medico, 1, n)
              /\ hcctr = SubSeq(run.hcctr, 1, n)
    /\ pc = "done" =>
          /\ Len(share) = anos_proj + 1
          /\ matched => Last(share) >= share_resistencia

C10_Witness ==
    /\ pc = "done"
    /\ matched
    /\ idx > 1
    /\ share_inicial < share_resistencia
    /\ Last(share) >= share_resistencia
    /\ \E i \in Rows :
          /\ debug_data[i].Motivo = MotivoResist
          /\ debug_data[i].HCCTR > 0

===========================================================================
